---- MODULE Spec2Model ----
(***************************************************************************)
(* Model of sync-sure-api: the /analyze-invoice pipeline of api.py (save   *)
(* two uploads to scratch files, extract their text, invoke the oracle,    *)
(* parse its answer as JSON, clean the scratch files up) and the PDF page  *)
(* extractor of vector.py.                                                 *)
(*                                                                         *)
(* Python values are tagged records: None is [t |-> "None"], a str is      *)
(* [t |-> "str", s |-> <<characters>>].  Text is a sequence of one-        *)
(* character strings, so that lower(), endswith(), strip(), "+" and the    *)
(* JSON scanner are computed character by character as the code does.      *)
(***************************************************************************)
EXTENDS Integers, Sequences, FiniteSets, TLC

VARIABLES fs, upload, oracle, pc, tmp, contract_path, invoice_path,
          contract_text, invoice_text, invocations, result, parsed, report,
          exc, response, probe, extracted, pages

vars == <<fs, upload, oracle, pc, tmp, contract_path, invoice_path,
          contract_text, invoice_text, invocations, result, parsed, report,
          exc, response, probe, extracted, pages>>

(***************************************************************************)
(* Bounds of the model.                                                    *)
(***************************************************************************)
\* longest oracle answer, in characters
MaxOutLen == 2
\* most pages of a PDF / paragraphs of a DOCX
MaxPages == 3
\* distinct random stems tempfile can draw for a scratch file name
NumStems == 2

(***************************************************************************)
(* Python values.                                                          *)
(***************************************************************************)
None == [t |-> "None"]

Str(s) == [t |-> "str", s |-> s]

\* Python truthiness of None and of a str: `not x`
Falsy(x) == x.t = "None" \/ (x.t = "str" /\ x.s = <<>>)

\* characters str.strip() removes (of those the model's texts hold)
Whitespace == {" ", "\n", "\t", "\r"}

RECURSIVE lstrip(_)
lstrip(s) ==
  IF s # <<>> /\ Head(s) \in Whitespace THEN lstrip(Tail(s)) ELSE s

RECURSIVE rstrip(_)
rstrip(s) ==
  IF s # <<>> /\ s[Len(s)] \in Whitespace
    THEN rstrip(SubSeq(s, 1, Len(s) - 1))
    ELSE s

strip(s) == rstrip(lstrip(s))

UpperCase == <<"A", "B", "C", "D", "E", "F", "G", "H", "I", "J", "K", "L", "M",
               "N", "O", "P", "Q", "R", "S", "T", "U", "V", "W", "X", "Y", "Z">>

LowerCase == <<"a", "b", "c", "d", "e", "f", "g", "h", "i", "j", "k", "l", "m",
               "n", "o", "p", "q", "r", "s", "t", "u", "v", "w", "x", "y", "z">>

lowerChar(c) ==
  IF \E i \in 1..26 : UpperCase[i] = c
    THEN LowerCase[CHOOSE i \in 1..26 : UpperCase[i] = c]
    ELSE c

lower(s) == [i \in 1..Len(s) |-> lowerChar(s[i])]

endswith(s, suffix) ==
  /\ Len(s) >= Len(suffix)
  /\ SubSeq(s, Len(s) - Len(suffix) + 1, Len(s)) = suffix

DotPdf == <<".", "p", "d", "f">>

DotDocx == <<".", "d", "o", "c", "x">>

(***************************************************************************)
(* Files.  A file's bytes are modelled by what the two readers make of     *)
(* them: a PDF is its pages, a DOCX its paragraphs, anything else (an      *)
(* empty or truncated file included) is junk that neither reader opens.    *)
(* A PDF page is the str that extract_text() returns, None when it returns *)
(* None, or Raises when extract_text() raises.  The disk maps the paths    *)
(* that exist to [creator, doc].                                           *)
(***************************************************************************)
Raises == [t |-> "raise"]

Pdf(ps) == [kind |-> "pdf", parts |-> ps]

Docx(ps) == [kind |-> "docx", parts |-> ps]

Junk == [kind |-> "junk", parts |-> <<>>]

\* the loop of extract_pdf_text over reader.pages: the text accumulated until
\* the pages end or a page raises (the except clause is outside the loop)
RECURSIVE PdfLoop(_, _)
PdfLoop(ps, full_text) ==
  IF ps = <<>> THEN full_text
  ELSE IF Head(ps).t = "raise" THEN full_text
  ELSE PdfLoop(Tail(ps),
               full_text \o (IF Falsy(Head(ps)) THEN <<>> ELSE Head(ps).s)
                         \o <<"\n", "\n">>)

extract_pdf_text(disk, pdf_path) ==
  IF pdf_path \notin DOMAIN disk \/ disk[pdf_path].doc.kind # "pdf"
    THEN Str(strip(<<>>))
    ELSE Str(strip(PdfLoop(disk[pdf_path].doc.parts, <<>>)))

RECURSIVE DocxLoop(_, _)
DocxLoop(ps, full_text) ==
  IF ps = <<>> THEN full_text
  ELSE DocxLoop(Tail(ps), full_text \o Head(ps).s \o <<"\n">>)

extract_docx_text(disk, docx_path) ==
  IF docx_path \notin DOMAIN disk \/ disk[docx_path].doc.kind # "docx"
    THEN Str(strip(<<>>))
    ELSE Str(strip(DocxLoop(disk[docx_path].doc.parts, <<>>)))

\* faulty variant: the extension is compared without lower()
load_document_text_case_sensitive(disk, file_path, original_filename) ==
  IF endswith(original_filename, DotPdf)
    THEN extract_pdf_text(disk, file_path)
  ELSE IF endswith(original_filename, DotDocx)
    THEN extract_docx_text(disk, file_path)
  ELSE None

load_document_text(disk, file_path, original_filename) ==
  IF endswith(lower(original_filename), DotPdf)
    THEN extract_pdf_text(disk, file_path)
  ELSE IF endswith(lower(original_filename), DotDocx)
    THEN extract_docx_text(disk, file_path)
  ELSE None

\* vector.py: the pages of a PDF as <<page number, stripped text>>
RECURSIVE PagesLoop(_, _)
PagesLoop(ps, i) ==
  IF ps = <<>> THEN <<>>
  ELSE <<  <<i + 1,
             strip(IF Head(ps).t = "raise" \/ Falsy(Head(ps))
                     THEN <<>> ELSE Head(ps).s)>>  >>
       \o PagesLoop(Tail(ps), i + 1)

extract_pdf_pages(disk, pdf_path) ==
  IF pdf_path \notin DOMAIN disk \/ disk[pdf_path].doc.kind # "pdf"
    THEN <<>>
    ELSE PagesLoop(disk[pdf_path].doc.parts, 0)

(***************************************************************************)
(* json.loads, as json/decoder.py and json/scanner.py compute it, on      *)
(* texts whose digits are all "1" and that hold no backslash, sign,        *)
(* fraction, exponent or literal name: whitespace, numbers, strings,       *)
(* arrays and objects.  Indices are Python's (0-based).  A result is       *)
(* [ok |-> TRUE, val, end] or [ok |-> FALSE, msg, pos]; msg                *)
(* "StopIteration" is scan_once's signal.  A dict is [t |-> "dict", v],    *)
(* v the function from its keys (character sequences) to their values.     *)
(***************************************************************************)
Quote == "\""

JsonChars == {"[", "]", "{", "}", "1", ",", " ", "x", Quote, ":"}

At(s, i) == IF i >= 0 /\ i < Len(s) THEN s[i + 1] ELSE ""

RECURSIVE SkipWs(_, _)
SkipWs(s, i) == IF At(s, i) \in Whitespace THEN SkipWs(s, i + 1) ELSE i

RECURSIVE DigitsEnd(_, _)
DigitsEnd(s, i) == IF At(s, i) = "1" THEN DigitsEnd(s, i + 1) ELSE i

RECURSIVE IntOf(_, _, _)
IntOf(s, i, j) == IF j <= i THEN 0 ELSE 10 * IntOf(s, i, j - 1) + 1

Ok(v, e) == [ok |-> TRUE, val |-> v, end |-> e, msg |-> "", pos |-> 0]

Err(m, p) == [ok |-> FALSE, val |-> None, end |-> 0, msg |-> m, pos |-> p]

\* characters a JSON string may not hold unescaped (strict mode)
ControlChars == {"\n", "\t", "\r"}

\* the index of the first quote or control character at or after i, or the
\* text's length
RECURSIVE StringStop(_, _)
StringStop(s, i) ==
  IF At(s, i) = "" \/ At(s, i) = Quote \/ At(s, i) \in ControlChars
    THEN i
    ELSE StringStop(s, i + 1)

\* scanstring(s, end): the string whose opening quote is at end - 1
scanstring(s, end) ==
  LET stop == StringStop(s, end)
  IN IF At(s, stop) = Quote
       THEN Ok(Str(SubSeq(s, end + 1, stop)), stop + 1)
     ELSE IF At(s, stop) = ""
       THEN Err("Unterminated string starting at", end - 1)
     ELSE Err("Invalid control character at", stop)

\* d[key] = value
SetItem(d, key, value) ==
  [k \in DOMAIN d \cup {key} |-> IF k = key THEN value ELSE d[k]]

RECURSIVE scan_once(_, _)
\* the members of an object from the quote expected at idx on
RECURSIVE JSONObjectLoop(_, _, _)
JSONObjectLoop(s, idx, d) ==
  IF At(s, idx) # Quote
    THEN Err("Expecting property name enclosed in double quotes", idx)
  ELSE
    LET k == scanstring(s, idx + 1)
    IN IF ~k.ok THEN k
       ELSE LET c == SkipWs(s, k.end)
            IN IF At(s, c) # ":" THEN Err("Expecting ':' delimiter", c)
               ELSE LET r == scan_once(s, SkipWs(s, c + 1))
                    IN IF ~r.ok
                         THEN (IF r.msg = "StopIteration"
                                 THEN Err("Expecting value", r.pos) ELSE r)
                       ELSE LET d2 == SetItem(d, k.val.s, r.val)
                                e == SkipWs(s, r.end)
                            IN IF At(s, e) = "}"
                                 THEN Ok([t |-> "dict", v |-> d2], e + 1)
                               ELSE IF At(s, e) # ","
                                 THEN Err("Expecting ',' delimiter", e)
                               ELSE JSONObjectLoop(s, SkipWs(s, e + 1), d2)

JSONObject(s, end) ==
  LET e1 == SkipWs(s, end)
  IN IF At(s, e1) = "}"
       THEN Ok([t |-> "dict", v |-> <<>>], e1 + 1)
       ELSE JSONObjectLoop(s, e1, <<>>)

RECURSIVE JSONArrayLoop(_, _, _)
JSONArrayLoop(s, end, values) ==
  LET r == scan_once(s, end)
  IN IF ~r.ok
       THEN (IF r.msg = "StopIteration" THEN Err("Expecting value", r.pos) ELSE r)
       ELSE LET vs == Append(values, r.val)
                e1 == IF At(s, r.end) \in Whitespace
                        THEN SkipWs(s, r.end + 1) ELSE r.end
                nextchar == At(s, e1)
                e2 == e1 + 1
            IN IF nextchar = "]" THEN Ok([t |-> "list", v |-> vs], e2)
               ELSE IF nextchar # "," THEN Err("Expecting ',' delimiter", e2 - 1)
               ELSE JSONArrayLoop(
                      s,
                      IF At(s, e2) \in Whitespace
                        THEN (IF At(s, e2 + 1) \in Whitespace
                                THEN SkipWs(s, e2 + 2) ELSE e2 + 1)
                        ELSE e2,
                      vs)

JSONArray(s, end) ==
  LET e1 == IF At(s, end) \in Whitespace THEN SkipWs(s, end + 1) ELSE end
  IN IF At(s, e1) = "]"
       THEN Ok([t |-> "list", v |-> <<>>], e1 + 1)
       ELSE JSONArrayLoop(s, e1, <<>>)

scan_once(s, idx) ==
  LET nextchar == At(s, idx)
  IN IF nextchar = "" THEN Err("StopIteration", idx)
     ELSE IF nextchar = Quote THEN scanstring(s, idx + 1)
     ELSE IF nextchar = "{" THEN JSONObject(s, idx + 1)
     ELSE IF nextchar = "[" THEN JSONArray(s, idx + 1)
     ELSE IF nextchar = "1"
       THEN Ok([t |-> "int", v |-> IntOf(s, idx, DigitsEnd(s, idx))],
               DigitsEnd(s, idx))
     ELSE Err("StopIteration", idx)

raw_decode(s, idx) ==
  LET r == scan_once(s, idx)
  IN IF ~r.ok /\ r.msg = "StopIteration" THEN Err("Expecting value", r.pos) ELSE r

json_loads(s) ==
  LET r == raw_decode(s, SkipWs(s, 0))
  IN IF ~r.ok THEN r
     ELSE IF SkipWs(s, r.end) # Len(s) THEN Err("Extra data", SkipWs(s, r.end))
     ELSE r

(***************************************************************************)
(* The request handler analyze_invoice and analyze_document_files.         *)
(***************************************************************************)
\* the requests the service handles; under SpecConc both are in flight together
Reqs == {1, 2}

Unset == [t |-> "unset"]

Path(stem, suffix) == [t |-> "path", stem |-> stem, suffix |-> suffix]

File(creator, doc) == [creator |-> creator, doc |-> doc]

Upload(filename, doc) == [filename |-> filename, doc |-> doc]

RECURSIVE LastDot(_, _)
LastDot(p, i) == IF i = 0 \/ p[i] = "." THEN i ELSE LastDot(p, i - 1)

RECURSIVE AllDots(_, _)
AllDots(p, i) == i = 0 \/ (p[i] = "." /\ AllDots(p, i - 1))

\* os.path.splitext(p)[1] of a name without directory separators: from the
\* last dot on, unless every character before that dot is a dot too
splitext_ext(p) ==
  LET d == LastDot(p, Len(p))
  IN IF d = 0 \/ AllDots(p, d - 1) THEN <<>> ELSE SubSeq(p, d, Len(p))

\* faulty variant: the scratch file is opened without the exclusive-creation check
AnyPaths(disk, suffix) == {Path(k, suffix) : k \in 1..NumStems}

\* tempfile.NamedTemporaryFile(delete=False, suffix=...): the names mkstemp
\* may return, those that O_EXCL finds not to exist
FreshPaths(disk, suffix) ==
  {Path(k, suffix) : k \in 1..NumStems} \ DOMAIN disk

Write(disk, path, file) ==
  [q \in DOMAIN disk \cup {path} |-> IF q = path THEN file ELSE disk[q]]

Unlink(disk, path) == [q \in DOMAIN disk \ {path} |-> disk[q]]

Exception(type, msg) == [t |-> type, msg |-> msg, status |-> 0]

HTTPException(status_code, detail) ==
  [t |-> "HTTPException", msg |-> detail, status |-> status_code]

ExtractFailed == "Failed to extract text from one or both files."

\* the text of whatever chain.invoke raises (network, auth, timeout)
OracleFailed == "oracle invocation failed"

\* faulty variant: `and` in place of `or`
TextsMissingBothOnly(ct, it) == Falsy(ct) /\ Falsy(it)

\* line 130: `if not contract_text or not invoice_text`
TextsMissing(ct, it) == Falsy(ct) \/ Falsy(it)

ParseErrorCode == "Failed to parse LLM output as JSON"

KError ==
  <<"e", "r", "r", "o", "r">>

KRawOutput ==
  <<"r", "a", "w", "_", "o", "u", "t", "p", "u", "t">>

KException ==
  <<"e", "x", "c", "e", "p", "t", "i", "o", "n">>

KDetail ==
  <<"d", "e", "t", "a", "i", "l">>

\* faulty variant: the raw output is stripped before it is reported
ErrorReportStripped(content, e) ==
  [t |-> "dict",
   v |-> (KError :> ParseErrorCode)
           @@ (KRawOutput :> Str(strip(content.s)))
           @@ (KException :> [msg |-> e.msg, pos |-> e.pos])]

\* lines 146-150: the structured error object
ErrorReport(content, e) ==
  [t |-> "dict",
   v |-> (KError :> ParseErrorCode)
           @@ (KRawOutput :> content)
           @@ (KException :> [msg |-> e.msg, pos |-> e.pos])]

\* lines 141-150: json.loads in try/except
ParseOutcome(content) ==
  LET r == json_loads(content.s)
  IN IF r.ok THEN r.val ELSE ErrorReport(content, r)

\* faulty variant: a failed invocation is retried
AfterOracleThrowRetry == "invoke"

\* where control goes when chain.invoke raises: the except clause of
\* analyze_invoice (analyze_document_files has no handler around the call)
AfterOracleThrow == "except"

\* lines 223-227
Handled(e) ==
  IF e.t = "HTTPException" THEN e ELSE HTTPException(500, e.msg)

\* line 231: `if p and os.path.exists(p)`
ShouldUnlink(disk, p) == p.t # "None" /\ p \in DOMAIN disk

Raise(r, e, to) ==
  /\ exc' = [exc EXCEPT ![r] = e]
  /\ pc' = [pc EXCEPT ![r] = to]

\* line 211: the contract's scratch file is created, or creating it raises
CreateContractTmp(r) ==
  /\ pc[r] = "received"
  /\ \/ \E p \in FreshPaths(fs, splitext_ext(upload[r].contract.filename)) :
          /\ fs' = Write(fs, p, File(r, Junk))
          /\ tmp' = [tmp EXCEPT ![r] = p]
          /\ pc' = [pc EXCEPT ![r] = "write_c"]
          /\ UNCHANGED exc
     \/ /\ Raise(r, Exception("OSError", "create"), "except")
        /\ UNCHANGED <<fs, tmp>>
  /\ UNCHANGED <<upload, oracle, contract_path, invoice_path,
                 contract_text, invoice_text, invocations, result, parsed,
                 report, response, probe, extracted, pages>>

\* lines 211-213: the upload is read and written, contract_path is set and
\* the `with` block closes the file.  When the read raises, or the write
\* raises inside write() (more bytes than the file buffer), the file stays
\* and contract_path is None; when the write only fills the buffer, line 213
\* sets contract_path and the OSError is raised by the flush at close
WriteContract(r) ==
  /\ pc[r] = "write_c"
  /\ \/ /\ fs' = Write(fs, tmp[r], File(r, upload[r].contract.doc))
        /\ contract_path' = [contract_path EXCEPT ![r] = tmp[r]]
        /\ pc' = [pc EXCEPT ![r] = "create_i"]
        /\ UNCHANGED exc
     \/ /\ Raise(r, Exception("OSError", "write"), "except")
        /\ UNCHANGED <<fs, contract_path>>
     \/ /\ Raise(r, Exception("OSError", "write"), "except")
        /\ contract_path' = [contract_path EXCEPT ![r] = tmp[r]]
        /\ UNCHANGED fs
  /\ UNCHANGED <<upload, oracle, tmp, invoice_path, contract_text,
                 invoice_text, invocations, result, parsed, report, response,
                 probe, extracted, pages>>

\* line 214
CreateInvoiceTmp(r) ==
  /\ pc[r] = "create_i"
  /\ \/ \E p \in FreshPaths(fs, splitext_ext(upload[r].invoice.filename)) :
          /\ fs' = Write(fs, p, File(r, Junk))
          /\ tmp' = [tmp EXCEPT ![r] = p]
          /\ pc' = [pc EXCEPT ![r] = "write_i"]
          /\ UNCHANGED exc
     \/ /\ Raise(r, Exception("OSError", "create"), "except")
        /\ UNCHANGED <<fs, tmp>>
  /\ UNCHANGED <<upload, oracle, contract_path, invoice_path,
                 contract_text, invoice_text, invocations, result, parsed,
                 report, response, probe, extracted, pages>>

\* lines 214-216: as for the contract
WriteInvoice(r) ==
  /\ pc[r] = "write_i"
  /\ \/ /\ fs' = Write(fs, tmp[r], File(r, upload[r].invoice.doc))
        /\ invoice_path' = [invoice_path EXCEPT ![r] = tmp[r]]
        /\ pc' = [pc EXCEPT ![r] = "load_c"]
        /\ UNCHANGED exc
     \/ /\ Raise(r, Exception("OSError", "write"), "except")
        /\ UNCHANGED <<fs, invoice_path>>
     \/ /\ Raise(r, Exception("OSError", "write"), "except")
        /\ invoice_path' = [invoice_path EXCEPT ![r] = tmp[r]]
        /\ UNCHANGED fs
  /\ UNCHANGED <<upload, oracle, tmp, contract_path, contract_text,
                 invoice_text, invocations, result, parsed, report, response,
                 probe, extracted, pages>>

\* line 127
LoadContract(r) ==
  /\ pc[r] = "load_c"
  /\ contract_text' =
       [contract_text EXCEPT
          ![r] = load_document_text(fs, contract_path[r],
                                    upload[r].contract.filename)]
  /\ pc' = [pc EXCEPT ![r] = "load_i"]
  /\ UNCHANGED <<fs, upload, oracle, tmp, contract_path, invoice_path,
                 invoice_text, invocations, result, parsed, report, exc,
                 response, probe, extracted, pages>>

\* lines 128-131
LoadInvoice(r) ==
  /\ pc[r] = "load_i"
  /\ LET it == load_document_text(fs, invoice_path[r],
                                  upload[r].invoice.filename)
     IN /\ invoice_text' = [invoice_text EXCEPT ![r] = it]
        /\ IF TextsMissing(contract_text[r], it)
             THEN Raise(r, Exception("Exception", ExtractFailed), "except")
             ELSE /\ pc' = [pc EXCEPT ![r] = "invoke"]
                  /\ UNCHANGED exc
  /\ UNCHANGED <<fs, upload, oracle, tmp, contract_path, invoice_path,
                 contract_text, invocations, result, parsed, report, response,
                 probe, extracted, pages>>

RECURSIVE SeqsUpTo(_, _)
SeqsUpTo(S, n) ==
  IF n = 0 THEN {<<>>}
  ELSE LET T == SeqsUpTo(S, n - 1)
       IN T \cup {Append(s, c) : s \in {x \in T : Len(x) = n - 1}, c \in S}

\* an answer with the fields of a compliance report
ComplianceAnswer ==
  <<"{", "\"", "s", "u", "m", "m", "a", "r", "y", "\"", ":", "\"", "x",
    "\"", ",", "\"", "c", "o", "m", "p", "l", "i", "a", "n", "c", "e", "-",
    "s", "c", "o", "r", "e", "\"", ":", "1", "1", ",", "\"", "i", "s", "s",
    "u", "e", "s", "\"", ":", "[", "]", ",", "\"", "r", "e", "c", "o", "m",
    "m", "e", "n", "d", "a", "t", "i", "o", "n", "\"", ":", "\"", "x",
    "\"", "}">>

\* an answer that is valid JSON with the fields of the error object
ErrorShapedAnswer ==
  <<"{", "\"", "e", "r", "r", "o", "r", "\"", ":", "\"", "x", "\"", ",",
    "\"", "r", "a", "w", "_", "o", "u", "t", "p", "u", "t", "\"", ":",
    "\"", "x", "\"", ",", "\"", "e", "x", "c", "e", "p", "t", "i", "o",
    "n", "\"", ":", "\"", "x", "\"", "}">>

\* an answer with the fields of both
BothShapedAnswer ==
  <<"{", "\"", "s", "u", "m", "m", "a", "r", "y", "\"", ":", "\"", "x",
    "\"", ",", "\"", "c", "o", "m", "p", "l", "i", "a", "n", "c", "e", "-",
    "s", "c", "o", "r", "e", "\"", ":", "1", ",", "\"", "i", "s", "s", "u",
    "e", "s", "\"", ":", "[", "]", ",", "\"", "r", "e", "c", "o", "m", "m",
    "e", "n", "d", "a", "t", "i", "o", "n", "\"", ":", "\"", "x", "\"",
    ",", "\"", "e", "r", "r", "o", "r", "\"", ":", "\"", "x", "\"", ",",
    "\"", "r", "a", "w", "_", "o", "u", "t", "p", "u", "t", "\"", ":",
    "\"", "x", "\"", ",", "\"", "e", "x", "c", "e", "p", "t", "i", "o",
    "n", "\"", ":", "\"", "x", "\"", "}">>

\* the texts the oracle may answer.  The oracle is opaque: "any" is every text
\* over JsonChars of at most MaxOutLen characters and the three answers
\* above, "terse" one text that is JSON and one that is not
OracleAnswers(mode) ==
  IF mode = "any"
    THEN SeqsUpTo(JsonChars, MaxOutLen)
           \cup {ComplianceAnswer, ErrorShapedAnswer, BothShapedAnswer}
    ELSE {<<"{", "}">>, <<"x">>}

\* lines 135-138: chain.invoke returns a message or raises
InvokeOracle(r) ==
  /\ pc[r] = "invoke"
  /\ invocations' = [invocations EXCEPT ![r] = @ + 1]
  /\ \/ \E out \in OracleAnswers(oracle) :
          /\ result' = [result EXCEPT ![r] = Str(out)]
          /\ pc' = [pc EXCEPT ![r] = "parse"]
          /\ UNCHANGED exc
     \/ /\ Raise(r, Exception("OracleError", OracleFailed), AfterOracleThrow)
        /\ UNCHANGED result
  /\ UNCHANGED <<fs, upload, oracle, tmp, contract_path, invoice_path,
                 contract_text, invoice_text, parsed, report, response, probe,
                 extracted, pages>>

\* lines 141-150 and 219-221: the report is parsed and returned
ParseReport(r) ==
  /\ pc[r] = "parse"
  /\ parsed' = [parsed EXCEPT ![r] = TRUE]
  /\ report' = [report EXCEPT ![r] = ParseOutcome(result[r])]
  /\ pc' = [pc EXCEPT ![r] = "finally_c"]
  /\ UNCHANGED <<fs, upload, oracle, tmp, contract_path, invoice_path,
                 contract_text, invoice_text, invocations, result, exc,
                 response, probe, extracted, pages>>

\* lines 223-227
HandleException(r) ==
  /\ pc[r] = "except"
  /\ Raise(r, Handled(exc[r]), "finally_c")
  /\ UNCHANGED <<fs, upload, oracle, tmp, contract_path, invoice_path,
                 contract_text, invoice_text, invocations, result, parsed,
                 report, response, probe, extracted, pages>>

\* lines 229-234, first turn of the loop: unlink, unlink raising (swallowed),
\* or nothing to unlink
UnlinkContract(r) ==
  /\ pc[r] = "finally_c"
  /\ \/ /\ ShouldUnlink(fs, contract_path[r])
        /\ fs' = Unlink(fs, contract_path[r])
     \/ /\ ShouldUnlink(fs, contract_path[r])
        /\ UNCHANGED fs
     \/ /\ ~ShouldUnlink(fs, contract_path[r])
        /\ UNCHANGED fs
  /\ pc' = [pc EXCEPT ![r] = "finally_i"]
  /\ UNCHANGED <<upload, oracle, tmp, contract_path, invoice_path,
                 contract_text, invoice_text, invocations, result, parsed,
                 report, exc, response, probe, extracted, pages>>

\* lines 229-234, second turn of the loop
UnlinkInvoice(r) ==
  /\ pc[r] = "finally_i"
  /\ \/ /\ ShouldUnlink(fs, invoice_path[r])
        /\ fs' = Unlink(fs, invoice_path[r])
     \/ /\ ShouldUnlink(fs, invoice_path[r])
        /\ UNCHANGED fs
     \/ /\ ~ShouldUnlink(fs, invoice_path[r])
        /\ UNCHANGED fs
  /\ pc' = [pc EXCEPT ![r] = "respond"]
  /\ UNCHANGED <<upload, oracle, tmp, contract_path, invoice_path,
                 contract_text, invoice_text, invocations, result, parsed,
                 report, exc, response, probe, extracted, pages>>

\* the framework's response: 200 with the returned report, or the
\* HTTPException's status with {"detail": ...}
Respond(r) ==
  /\ pc[r] = "respond"
  /\ response' =
       [response EXCEPT
          ![r] = IF exc[r].t = "HTTPException"
                   THEN [status |-> exc[r].status,
                         body |-> [t |-> "dict",
                                   v |-> KDetail :> exc[r].msg]]
                   ELSE [status |-> 200, body |-> report[r]]]
  /\ pc' = [pc EXCEPT ![r] = "done"]
  /\ UNCHANGED <<fs, upload, oracle, tmp, contract_path, invoice_path,
                 contract_text, invoice_text, invocations, result, parsed,
                 report, exc, probe, extracted, pages>>

Next ==
  \E r \in Reqs :
    \/ CreateContractTmp(r)
    \/ WriteContract(r)
    \/ CreateInvoiceTmp(r)
    \/ WriteInvoice(r)
    \/ LoadContract(r)
    \/ LoadInvoice(r)
    \/ InvokeOracle(r)
    \/ ParseReport(r)
    \/ HandleException(r)
    \/ UnlinkContract(r)
    \/ UnlinkInvoice(r)
    \/ Respond(r)

(***************************************************************************)
(* Inputs.                                                                 *)
(***************************************************************************)
NamePdf == <<"a", ".", "p", "d", "f">>

NamePdfUpper == <<"A", ".", "P", "D", "F">>

NameDocx == <<"b", ".", "d", "o", "c", "x">>

NameTxt == <<"c", ".", "t", "x", "t">>

\* the uploads of one request under Spec: supported and unsupported names,
\* documents with and without text
UploadChoices ==
  { Upload(NamePdf, Pdf(<<Str(<<"a">>)>>)),
    Upload(NamePdfUpper, Pdf(<<Str(<<" ">>), None>>)),
    Upload(NameDocx, Docx(<<Str(<<"b">>)>>)),
    Upload(NamePdf, Junk),
    Upload(NameTxt, Junk) }

NoUpload == Upload(<<>>, Junk)

InitLocals ==
  /\ tmp = [r \in Reqs |-> None]
  /\ contract_path = [r \in Reqs |-> None]
  /\ invoice_path = [r \in Reqs |-> None]
  /\ contract_text = [r \in Reqs |-> Unset]
  /\ invoice_text = [r \in Reqs |-> Unset]
  /\ invocations = [r \in Reqs |-> 0]
  /\ result = [r \in Reqs |-> Unset]
  /\ parsed = [r \in Reqs |-> FALSE]
  /\ report = [r \in Reqs |-> Unset]
  /\ exc = [r \in Reqs |-> None]
  /\ response = [r \in Reqs |-> Unset]

\* one request on an empty scratch directory, the oracle free to answer any
\* text
Init ==
  /\ fs = <<>>
  /\ \E c \in UploadChoices, i \in UploadChoices :
       upload = [r \in Reqs |-> IF r = 1 THEN [contract |-> c, invoice |-> i]
                                         ELSE [contract |-> NoUpload,
                                               invoice |-> NoUpload]]
  /\ oracle = "any"
  /\ pc = [r \in Reqs |-> IF r = 1 THEN "received" ELSE "idle"]
  /\ InitLocals
  /\ probe = Unset
  /\ extracted = Unset
  /\ pages = Unset

Spec == Init /\ [][Next]_vars

ReqTag == <<"1", "2">>

\* every request in flight at once, all with the same two file names, each
\* with documents that carry the request's own tag
InitConc ==
  /\ fs = <<>>
  /\ upload =
       [r \in Reqs |->
          [contract |-> Upload(NamePdf, Pdf(<<Str(<<"c", ReqTag[r]>>)>>)),
           invoice |-> Upload(NameDocx, Docx(<<Str(<<"i", ReqTag[r]>>)>>))]]
  /\ oracle = "terse"
  /\ pc = [r \in Reqs |-> "received"]
  /\ InitLocals
  /\ probe = Unset
  /\ extracted = Unset
  /\ pages = Unset

SpecConc == InitConc /\ [][Next]_vars

(***************************************************************************)
(* The extractors applied on their own: load_document_text and             *)
(* extract_pdf_pages on a path that holds a document or does not exist.    *)
(***************************************************************************)
ProbePath == Path(1, DotPdf)

PageValues == {Str(<<"a">>), Str(<<"b", " ">>), None, Raises}

ParaValues == {Str(<<"a">>), Str(<<>>)}

ProbeDocs ==
  {Pdf(ps) : ps \in SeqsUpTo(PageValues, MaxPages)}
    \cup {Docx(ps) : ps \in SeqsUpTo(ParaValues, MaxPages)}
    \cup {Junk}

ProbeNames ==
  { NamePdf, NamePdfUpper, NameDocx, NameTxt,
    <<"p", "d", "f">>,
    <<"a", ".", "p", "d", "f", ".", "t", "x", "t">>,
    <<"x", ".", "D", "o", "c", "X">>,
    <<".", "p", "d", "f">> }

InitExtract ==
  /\ \/ fs = <<>>
     \/ \E d \in ProbeDocs : fs = Write(<<>>, ProbePath, File(0, d))
  /\ \E n \in ProbeNames :
       probe = [file_path |-> ProbePath, original_filename |-> n]
  /\ extracted = Unset
  /\ pages = Unset
  /\ upload = [r \in Reqs |-> [contract |-> NoUpload, invoice |-> NoUpload]]
  /\ oracle = "terse"
  /\ pc = [r \in Reqs |-> "idle"]
  /\ InitLocals

CallLoadDocumentText ==
  /\ extracted = Unset
  /\ extracted' =
       load_document_text(fs, probe.file_path, probe.original_filename)
  /\ UNCHANGED <<fs, upload, oracle, pc, tmp, contract_path,
                 invoice_path, contract_text, invoice_text, invocations,
                 result, parsed, report, exc, response, probe, pages>>

CallExtractPdfPages ==
  /\ pages = Unset
  /\ pages' = [t |-> "list", v |-> extract_pdf_pages(fs, probe.file_path)]
  /\ UNCHANGED <<fs, upload, oracle, pc, tmp, contract_path,
                 invoice_path, contract_text, invoice_text, invocations,
                 result, parsed, report, exc, response, probe, extracted>>

NextExtract == CallLoadDocumentText \/ CallExtractPdfPages

SpecExtract == InitExtract /\ [][NextExtract]_vars

(***************************************************************************)
(* Properties.                                                             *)
(***************************************************************************)
Done(r) == pc[r] = "done"

ParseFailed(r) == parsed[r] /\ ~json_loads(result[r].s).ok

KSummary ==
  <<"s", "u", "m", "m", "a", "r", "y">>

KScore ==
  <<"c", "o", "m", "p", "l", "i", "a", "n", "c", "e", "-", "s", "c", "o",
    "r", "e">>

KIssues ==
  <<"i", "s", "s", "u", "e", "s">>

KRecommendation ==
  <<"r", "e", "c", "o", "m", "m", "e", "n", "d", "a", "t", "i", "o", "n">>

\* spec 3: an ErrorReport carries an error code, the raw oracle output and
\* diagnostic detail
IsErrorReport(b) ==
  /\ b.t = "dict"
  /\ {KError, KRawOutput, KException} \subseteq DOMAIN b.v

\* spec 3: a ComplianceReport has a summary, an integer compliance-score of
\* 0 to 100, a sequence of issues and a recommendation (notes are optional)
IsComplianceReport(b) ==
  /\ b.t = "dict"
  /\ {KSummary, KScore, KIssues, KRecommendation} \subseteq DOMAIN b.v
  /\ b.v[KSummary].t = "str"
  /\ b.v[KScore].t = "int"
  /\ b.v[KScore].v \in 0..100
  /\ b.v[KIssues].t = "list"
  /\ b.v[KRecommendation].t = "str"

\* chain.invoke raised in request r (its message survives in the HTTPException)
OracleThrew(r) == exc[r].t # "None" /\ exc[r].msg = OracleFailed

\* C1: once a request has completed, no scratch file that it created
\* exists, on every exit path.
C1_ScratchFilesAbsent ==
  \A r \in Reqs :
    Done(r) => \A p \in DOMAIN fs : fs[p].creator # r

\* C2: a request in which the contract's or the invoice's extracted text is
\* absent or empty ends with status 415.
C2_EmptyTextIs415 ==
  \A r \in Reqs :
    (Done(r) /\ invoice_text[r] # Unset
       /\ (Falsy(contract_text[r]) \/ Falsy(invoice_text[r])))
      => response[r].status = 415

\* C3: the oracle is invoked only when both extracted texts are non-empty
\* strings; with an absent or empty text it is never invoked.
C3_NoOracleWithoutText ==
  \A r \in Reqs :
    (invocations[r] > 0 \/ pc[r] \in {"invoke", "parse"} \/ result[r] # Unset)
      => /\ contract_text[r].t = "str" /\ contract_text[r].s # <<>>
         /\ invoice_text[r].t = "str" /\ invoice_text[r].s # <<>>

C3_Witness ==
  \E r \in Reqs :
    /\ Done(r)
    /\ contract_text[r].t = "str" /\ contract_text[r].s # <<>>
    /\ invoice_text[r] = None
    /\ invocations[r] = 0

\* C4: every completed request returned exactly one of a ComplianceReport
\* or an ErrorReport: never both and never neither, on every path through
\* save, extraction, oracle invocation and parsing.
C4_ExactlyOneReport ==
  \A r \in Reqs :
    Done(r) =>
      (IsComplianceReport(response[r].body) # IsErrorReport(response[r].body))

\* C5: when the oracle's text is not valid JSON, parsing raises nothing and
\* the report is an ErrorReport with the fixed error code, the parse
\* exception's message and the oracle's text, unmodified, as raw output.
C5_ParseFailureIsErrorReport ==
  \A r \in Reqs :
    ParseFailed(r) =>
      /\ report[r].t = "dict"
      /\ DOMAIN report[r].v = {KError, KRawOutput, KException}
      /\ report[r].v[KError] = "Failed to parse LLM output as JSON"
      /\ report[r].v[KRawOutput] = result[r]
      /\ report[r].v[KException] = [msg |-> json_loads(result[r].s).msg,
                                    pos |-> json_loads(result[r].s).pos]
      /\ exc[r] = None
      /\ pc[r] \in {"finally_c", "finally_i", "respond", "done"}

C5_Witness ==
  \E r \in Reqs :
    /\ Done(r)
    /\ ParseFailed(r)
    /\ result[r].s = <<" ", "x">>
    /\ response[r].body.v[KRawOutput] = Str(<<" ", "x">>)

\* C6: a parse failure ends with status 500 and an ErrorReport body, and
\* status 200 is returned only with a ComplianceReport body.
C6_ParseFailureIs500 ==
  \A r \in Reqs :
    Done(r) =>
      /\ ParseFailed(r) =>
           (response[r].status = 500 /\ IsErrorReport(response[r].body))
      /\ response[r].status = 200 => IsComplianceReport(response[r].body)

\* C7: the oracle is invoked at most once per request; when the invocation
\* throws there is no second invocation and no parse step, and the request
\* ends with status 500.
C7_OracleFailFast ==
  \A r \in Reqs :
    /\ invocations[r] <= 1
    /\ OracleThrew(r) =>
         /\ invocations[r] = 1
         /\ pc[r] \notin {"invoke", "parse"}
         /\ ~parsed[r]
         /\ result[r] = Unset
         /\ Done(r) => response[r].status = 500

C7_Witness ==
  \E r \in Reqs :
    /\ Done(r)
    /\ OracleThrew(r)
    /\ invocations[r] = 1
    /\ response[r].status = 500

Unsupported(name) ==
  /\ ~endswith(lower(name), DotPdf)
  /\ ~endswith(lower(name), DotDocx)

Missing == probe.file_path \notin DOMAIN fs

\* C8 as stated: the extractor returns absent when the filename ends with
\* neither .pdf nor .docx (case-insensitively), and also when the file does
\* not exist.
C8_AbsentIfUnsupportedOrMissing ==
  extracted # Unset =>
    ((Unsupported(probe.original_filename) \/ Missing) => extracted = None)

\* C8 amended: the extractor returns absent when the filename ends with
\* neither .pdf nor .docx (case-insensitively), whether or not the file
\* exists; when the file does not exist and the filename ends with .pdf or
\* .docx it returns the empty string, not absent.
C8_AbsentIfUnsupportedEmptyIfMissing ==
  extracted # Unset =>
    /\ Unsupported(probe.original_filename) => extracted = None
    /\ (~Unsupported(probe.original_filename) /\ Missing)
         => extracted = Str(<<>>)

C8_Witness ==
  /\ extracted = Str(<<>>)
  /\ Missing
  /\ probe.original_filename = NamePdfUpper

\* a document's pages with every failing page replaced by a page of empty
\* text
EmptyWhereRaises(ps) ==
  [i \in 1..Len(ps) |-> IF ps[i].t = "raise" THEN Str(<<>>) ELSE ps[i]]

\* C9: PDF extraction treats a page whose extraction fails as a page of
\* empty text: the result is what the same document yields with that page
\* empty, so the text of the pages after it is still there, in page order.
C9_FailingPageIsEmptyPage ==
  (/\ extracted # Unset
   /\ ~Missing
   /\ fs[probe.file_path].doc.kind = "pdf"
   /\ endswith(lower(probe.original_filename), DotPdf))
    => extracted =
         Str(strip(PdfLoop(EmptyWhereRaises(fs[probe.file_path].doc.parts),
                           <<>>)))

\* the text a request's upload yields when it alone is on the disk
OwnText(r, u) ==
  load_document_text(Write(<<>>, ProbePath, File(r, u.doc)), ProbePath,
                     u.filename)

\* C10: under every interleaving, from the moment a request holds the path
\* of a scratch file until its own cleanup reaches it, that path names a file
\* the request itself created; while the file is yet to be extracted it
\* holds the request's own upload, and the texts the request extracts (the
\* oracle's input) are those of its own two uploads.
C10_RequestLocal ==
  \A r \in Reqs :
    /\ (pc[r] \in {"create_i", "write_i", "load_c", "load_i", "invoke",
                   "parse", "except", "finally_c"}
          /\ contract_path[r] # None)
         => /\ contract_path[r] \in DOMAIN fs
            /\ fs[contract_path[r]].creator = r
    /\ (pc[r] \in {"load_c", "load_i", "invoke", "parse", "except",
                   "finally_c", "finally_i"}
          /\ invoice_path[r] # None)
         => /\ invoice_path[r] \in DOMAIN fs
            /\ fs[invoice_path[r]].creator = r
    /\ pc[r] = "load_c"
         => fs[contract_path[r]] = File(r, upload[r].contract.doc)
    /\ pc[r] \in {"load_c", "load_i"}
         => fs[invoice_path[r]] = File(r, upload[r].invoice.doc)
    /\ contract_text[r] # Unset
         => contract_text[r] = OwnText(r, upload[r].contract)
    /\ invoice_text[r] # Unset
         => invoice_text[r] = OwnText(r, upload[r].invoice)

C10_Witness ==
  /\ pc[1] = "load_i"
  /\ pc[2] = "respond"
  /\ contract_path[2] # None
  /\ contract_path[2] \notin DOMAIN fs
  /\ invoice_path[2] # None
  /\ invoice_path[2] \notin DOMAIN fs
  /\ contract_path[1] \in DOMAIN fs
  /\ invoice_path[1] \in DOMAIN fs
  /\ contract_text[1] = Str(<<"c", "1">>)

====
